---- MODULE Spec2Model ----
(***************************************************************************)
(* A model of liby (src/liby/y.c, src/liby/y.h): the lexer, the recursive  *)
(* descent parser, the context with its forest of roots, the path query    *)
(* y_find and the sibling iterator y_iter.                                 *)
(*                                                                         *)
(* Bytes are ASCII codes.  A pointer into a unit's buffer is the byte's    *)
(* offset from unit->data.  A pointer to a node is the node's index in the *)
(* heap (0 is NULL).  The allocator hands out zero-filled blocks: the code *)
(* never writes the next field of a list's last node, nor the value of a   *)
(* bare name, and relies on both being zero.                               *)
(***************************************************************************)
EXTENDS Integers, Sequences, FiniteSets, TLC

(* ------------------------------------------------------------------ *)
(* Bytes the source names.                                             *)
(* ------------------------------------------------------------------ *)
NUL == 0
TAB == 9
LF == 10
SP == 32
QUOTE == 34
DOT == 46
SLASH == 47
NOTE == 64
USCORE == 95
OPEN == 123
CLOSE == 125

(* enum token: the structural tokens carry the byte itself as their kind *)
(* (lex_token passes *ch), so TOKEN_NOTE, TOKEN_OPEN and TOKEN_CLOSE     *)
(* never occur.                                                          *)
TOKEN_NONE == 0
TOKEN_TEXT == 1
TOKEN_NUMBER == 2
TOKEN_STRING == 3

(* enum y_kind *)
Y_NONE == 0
Y_NODE == 1
Y_STRING == 2
Y_INTEGER == 3
Y_DECIMAL == 4

(* A char pointer that is NULL (token_new(unit, TOKEN_NONE, 0, 0)). *)
NULLCH == -1

(* What a read outside the mapped memory gives the model: no byte. *)
UNMAPPED == -2

(* The ASCII code of each character the inputs below are written in. *)
Code == [c \in {"a", "b", "c", "1", "2", " ", "{", "}", "q", "/", ".", "_", "@", "n", "x"} |->
          CASE c = "a" -> 97 [] c = "b" -> 98 [] c = "c" -> 99 [] c = "1" -> 49 [] c = "2" -> 50
            [] c = " " -> SP [] c = "{" -> OPEN [] c = "}" -> CLOSE [] c = "q" -> QUOTE
            [] c = "/" -> SLASH [] c = "." -> DOT [] c = "_" -> USCORE [] c = "@" -> NOTE
            [] c = "n" -> LF [] c = "x" -> 120]

(* A buffer written as a tuple of characters: "q" stands for the double *)
(* quote and "n" for the newline.                                       *)
Text(s) == [i \in 1..Len(s) |-> Code[s[i]]]

isalpha(c) == (c >= 65 /\ c <= 90) \/ (c >= 97 /\ c <= 122)

isdigit(c) == c >= 48 /\ c <= 57

(* ------------------------------------------------------------------ *)
(* Values, tokens, units.                                              *)
(* ------------------------------------------------------------------ *)

(* y_value_t, zero-filled.  The C type is a union under the kind: the  *)
(* fields beside the one the kind names hold no value of their own     *)
(* (see value_node).  A decimal is <<digits, number of fraction        *)
(* digits>>.                                                           *)
ZeroValue == [kind |-> Y_NONE, node |-> 0, string |-> NULLCH, length |-> 0, integer |-> 0, decimal |-> <<0, 0>>]

(* token_t, zero-filled (unit_t unit = { 0 }). *)
ZeroToken == [kind |-> TOKEN_NONE, line |-> 0, start |-> NULLCH, begin |-> NULLCH, end |-> NULLCH, value |-> ZeroValue]

(* unit_t for a buffer of `length` bytes.  data holds data[0..length]   *)
(* (the terminating NUL included); data[i] is data[i + 1] here.        *)
(* beyond holds the bytes that happen to follow the buffer in memory.  *)
(* fatal is the message fatal_at exited with, fault a read outside the *)
(* mapped memory, oob the highest offset read.                         *)
new_unit(bytes, beyond, start) == [data |-> bytes \o <<NUL>>, beyond |-> beyond, start |-> start, length |-> Len(bytes), cursor |-> 0, line |-> 0, previous |-> ZeroToken, current |-> ZeroToken, fatal |-> "", fault |-> FALSE, oob |-> 0]

(* The byte at data + i. *)
Byte(u, i) ==
  IF i < 0 THEN UNMAPPED
  ELSE IF i < Len(u.data) THEN u.data[i + 1]
  ELSE IF i - Len(u.data) < Len(u.beyond) THEN u.beyond[i - Len(u.data) + 1]
  ELSE UNMAPPED

Dead(u) == u.fatal # "" \/ u.fault

(* fatal_at: prints and exits the process. *)
fatal_at(u, message) == [u EXCEPT !.fatal = message]

(* The bytes of a string_t (pointer, length) into a unit's buffer. *)
Slice(u, begin, length) == [i \in 1..length |-> Byte(u, begin + i - 1)]

(* The unit as a call leaves it: of the memory beyond the buffer, what *)
(* the call has read.                                                  *)
Seen(u) == [u EXCEPT !.beyond = IF u.oob > u.length THEN @ ELSE <<>>]

(* ------------------------------------------------------------------ *)
(* Lexer.  A function of the source is written as the operator of its  *)
(* name and, where it uses a result more than once, operators that     *)
(* take that result as a parameter.                                    *)
(* ------------------------------------------------------------------ *)

(* The read of the byte at offset ch: recorded, and a fault when the *)
(* offset is outside the mapped memory.                              *)
Touch(u, ch) == [u EXCEPT !.fault = @ \/ ch >= Len(u.data) + Len(u.beyond), !.oob = IF ch > @ THEN ch ELSE @]

(* The byte a (unit, ch) result points at. *)
ByteAt(r) == Byte(r.unit, r.ch)

RECURSIVE comment_loop(_, _)
(* raw, lines 121-122: advance while the byte is neither NUL nor newline *)
comment_loop(u, ch) ==
  IF ~u.fault /\ Byte(u, ch) # NUL /\ Byte(u, ch) # LF
  THEN comment_loop(Touch([u EXCEPT !.cursor = @ + 1], u.cursor), u.cursor)
  ELSE [unit |-> u, ch |-> ch]

(* raw, line 119: the statement adds 2 to the BYTE at ch, so the '/' *)
(* becomes '1'; the pointer stays.                                   *)
skip_marker(u, ch) == [u EXCEPT !.data[ch + 1] = (@ + 2) % 256]

(* raw, lines 117-125, with ch = data + cursor++ done *)
raw_at(u, ch) ==
  IF ~u.fault /\ Byte(u, ch) = SLASH /\ Byte(u, ch + 1) = SLASH
  THEN comment_loop(skip_marker(u, ch), ch)
  ELSE [unit |-> u, ch |-> ch]

(* raw: the byte at the cursor, the cursor advanced; at a comment, the *)
(* newline or NUL that ends it.                                        *)
raw(u) == raw_at(Touch([u EXCEPT !.cursor = @ + 1], u.cursor), u.cursor)

RECURSIVE next(_)
RECURSIVE next_step(_)
(* next, lines 132-143 *)
next_step(r) ==
  IF r.unit.fault THEN r
  ELSE IF ByteAt(r) = LF THEN next([r.unit EXCEPT !.line = @ + 1, !.start = r.ch + 1])
  ELSE IF ByteAt(r) = TAB \/ ByteAt(r) = SP THEN next(r.unit)
  ELSE r

(* next: raw, skipping blanks and counting lines. *)
next(u) == next_step(raw(u))

(* token_new (with source): only TEXT and STRING set the value. *)
token_new(u, kind, begin, end) ==
  [kind |-> kind, line |-> u.line, start |-> u.start, begin |-> begin, end |-> end,
   value |-> IF kind = TOKEN_TEXT \/ kind = TOKEN_STRING
             THEN [ZeroValue EXCEPT !.kind = Y_STRING, !.string = begin, !.length = end - begin]
             ELSE ZeroValue]

RECURSIVE token_string(_, _)
RECURSIVE string_step(_, _)
(* token_string, lines 177-183: the loop has no test for the *)
(* terminating NUL.                                          *)
string_step(r, begin) ==
  IF r.unit.fault THEN [unit |-> r.unit, token |-> ZeroToken]
  ELSE IF ByteAt(r) = QUOTE THEN [unit |-> r.unit, token |-> token_new(r.unit, TOKEN_STRING, begin + 1, r.ch)]
  ELSE IF ByteAt(r) = LF THEN [unit |-> fatal_at(r.unit, "Strings can not contain a new line."), token |-> ZeroToken]
  ELSE token_string(r.unit, begin)

(* token_string: raw bytes up to the next quote; a newline is fatal. *)
token_string(u, begin) == string_step(raw(u), begin)

RECURSIVE text_loop(_, _)
RECURSIVE text_step(_)
(* token_text, line 191 *)
text_step(r) == text_loop(r.unit, r.ch)

(* token_text, lines 190-191 *)
text_loop(u, ch) ==
  IF ~u.fault /\ (isalpha(Byte(u, ch)) \/ isdigit(Byte(u, ch)) \/ Byte(u, ch) = USCORE)
  THEN text_step(raw(u))
  ELSE u

(* token_text, line 193: the token ends at data + --cursor *)
text_end(u, begin) == [unit |-> [u EXCEPT !.cursor = @ - 1], token |-> token_new(u, TOKEN_TEXT, begin, u.cursor - 1)]

(* token_text *)
token_text(u, begin) == text_end(text_loop(u, begin), begin)

RECURSIVE strtoull_loop(_, _, _)
(* strtoull(begin, &end, 10) on a buffer that starts with a digit: the  *)
(* digits up to the first byte that is none.  (The saturation at        *)
(* ULLONG_MAX needs 20 digits, more than a buffer here holds.)          *)
strtoull_loop(u, i, acc) ==
  IF isdigit(Byte(u, i)) THEN strtoull_loop(u, i + 1, acc * 10 + (Byte(u, i) - 48))
  ELSE [value |-> acc, end |-> i]

strtoull(u, begin) == strtoull_loop(u, begin, 0)

RECURSIVE fraction_loop(_, _, _, _)
(* strtod: the digits after the point *)
fraction_loop(u, i, acc, n) ==
  IF isdigit(Byte(u, i)) THEN fraction_loop(u, i + 1, acc * 10 + (Byte(u, i) - 48), n + 1)
  ELSE [value |-> <<acc, n>>, end |-> i]

(* strtod: after the integer part ip *)
strtod_point(u, ip) ==
  IF Byte(u, ip.end) = DOT THEN fraction_loop(u, ip.end + 1, ip.value, 0)
  ELSE [value |-> <<ip.value, 0>>, end |-> ip.end]

(* strtod(begin, &end) on a buffer that starts with a digit: digits,   *)
(* then '.' and digits.  The value is <<all digits, fraction digits>>. *)
strtod(u, begin) == strtod_point(u, strtoull_loop(u, begin, 0))

RECURSIVE number_loop(_, _, _)
RECURSIVE number_step(_, _)
(* token_number, lines 206-212 *)
number_step(r, number) ==
  IF ~r.unit.fault /\ ByteAt(r) = DOT
  THEN IF number = Y_DECIMAL
       THEN [unit |-> fatal_at(r.unit, "Duplicate floating-point decimal in number."), number |-> number]
       ELSE number_loop(r.unit, r.ch, Y_DECIMAL)
  ELSE number_loop(r.unit, r.ch, number)

(* token_number, lines 202-213 *)
number_loop(u, ch, number) ==
  IF ~u.fault /\ (isdigit(Byte(u, ch)) \/ Byte(u, ch) = USCORE \/ Byte(u, ch) = DOT)
  THEN number_step(raw(u), number)
  ELSE [unit |-> u, number |-> number]

(* token_number, lines 215-223, n what strtoull or strtod gave *)
number_value(r, begin, n) ==
  [unit |-> [r.unit EXCEPT !.cursor = @ - 1],
   token |-> [token_new(r.unit, TOKEN_NUMBER, begin, r.unit.cursor - 1) EXCEPT
                !.end = n.end, !.value.kind = r.number,
                !.value.integer = IF r.number = Y_INTEGER THEN n.value ELSE 0,
                !.value.decimal = IF r.number = Y_DECIMAL THEN n.value ELSE <<0, 0>>]]

(* token_number, lines 215-223: the value is what strtoull or strtod *)
(* reads from begin in the buffer as it then is.                     *)
number_end(r, begin) ==
  IF Dead(r.unit) THEN [unit |-> r.unit, token |-> ZeroToken]
  ELSE number_value(r, begin, IF r.number = Y_INTEGER THEN strtoull(r.unit, begin) ELSE strtod(r.unit, begin))

(* token_number: the scanner takes digits, '_' and '.'. *)
token_number(u, begin) == number_end(number_loop(u, begin, Y_INTEGER), begin)

(* lex_token, lines 234-253: the byte next returned decides *)
lex_dispatch(r) ==
  IF r.unit.fault THEN [unit |-> r.unit, token |-> ZeroToken]
  ELSE IF ByteAt(r) = NUL THEN [unit |-> r.unit, token |-> token_new(r.unit, TOKEN_NONE, r.ch, r.ch)]
  ELSE IF ByteAt(r) = OPEN \/ ByteAt(r) = CLOSE \/ ByteAt(r) = NOTE THEN [unit |-> r.unit, token |-> token_new(r.unit, ByteAt(r), r.ch, r.ch + 1)]
  ELSE IF ByteAt(r) = QUOTE THEN token_string(r.unit, r.ch)
  ELSE IF isalpha(ByteAt(r)) \/ ByteAt(r) = USCORE THEN token_text(r.unit, r.ch)
  ELSE IF isdigit(ByteAt(r)) THEN token_number(r.unit, r.ch)
  ELSE [unit |-> fatal_at(r.unit, "Unknown character"), token |-> ZeroToken]

(* lex_token *)
lex_token(u) ==
  IF u.cursor > u.length THEN [unit |-> u, token |-> token_new(u, TOKEN_NONE, NULLCH, NULLCH)]
  ELSE lex_dispatch(next(u))

(* lex_next, lines 258-260, r what lex_token gave *)
lex_store(u, r) ==
  IF Dead(r.unit) THEN r.unit
  ELSE [r.unit EXCEPT !.previous = u.current, !.current = r.token]

(* lex_next: previous = current; current = lex_token(unit).  After *)
(* fatal_at the process is gone and nothing more runs.             *)
lex_next(u) == IF Dead(u) THEN u ELSE lex_store(u, lex_token(u))

(* token_eat returns &unit->previous of the unit it gives back. *)
token_eat(u) == lex_next(u)

(* token_expect *)
token_expect(u, kind) ==
  IF Dead(u) THEN u
  ELSE IF u.current.kind = kind THEN token_eat(u)
  ELSE fatal_at(u, "Expected token")

(* token_consume: ok is whether a token was returned (not NULL). *)
token_consume(u, kind) ==
  IF ~Dead(u) /\ u.current.kind = kind
  THEN [unit |-> token_eat(u), ok |-> TRUE]
  ELSE [unit |-> u, ok |-> FALSE]

(* ------------------------------------------------------------------ *)
(* Tree model and parser.                                              *)
(* ------------------------------------------------------------------ *)

(* A node pointer that dangles: the address of a local whose function *)
(* has returned.                                                      *)
DANGLING == -1

(* A node pointer that was never one: a scalar payload read through *)
(* the union's node member.                                         *)
WILD == -2

(* y_node_t, zero-filled.  name is a string_t into the buffer of unit   *)
(* `unit` (the index the unit gets in ctx.units; 0 for none).  note is  *)
(* the chain of y_note_t as the sequence of their names.                *)
ZeroNode == [name |-> [string |-> NULLCH, length |-> 0], note |-> <<>>, value |-> ZeroValue, parent |-> 0, next |-> 0, unit |-> 0]

(* The string_t of a TEXT or STRING token. *)
token_string_t(t) == [string |-> t.value.string, length |-> t.value.length]

RECURSIVE note_loop(_, _)
RECURSIVE note_name(_, _)
RECURSIVE note_step(_, _)
(* parse_note, line 294, e what token_expect gave *)
note_step(e, notes) ==
  IF Dead(e) THEN [unit |-> e, note |-> notes]
  ELSE note_loop(e, Append(notes, token_string_t(e.previous)))

(* parse_note, lines 291-294, c what token_consume gave *)
note_name(c, notes) ==
  IF ~c.ok THEN [unit |-> c.unit, note |-> notes]
  ELSE note_step(token_expect(c.unit, TOKEN_TEXT), notes)

(* parse_note, lines 291-295 *)
note_loop(u, notes) == note_name(token_consume(u, NOTE), notes)

(* parse_note *)
parse_note(u) == note_loop(u, <<>>)

RECURSIVE parse_node(_)
RECURSIVE node_list(_, _, _)
RECURSIVE list_close(_, _, _, _)
RECURSIVE list_end(_, _, _, _)
RECURSIVE list_link(_, _, _, _)
RECURSIVE node_name(_, _, _)
RECURSIVE node_value(_, _, _)
RECURSIVE node_closed(_, _)

(* parse_node, lines 316-317: it = it->next = parse_node(unit);       *)
(* it->parent = node.  r is what parse_node gave, p.head the local    *)
(* head.next, `it` the last child linked (0: it = &head).             *)
list_link(p, node, it, r) ==
  IF Dead(r.unit) THEN r
  ELSE node_list([r EXCEPT !.heap = [IF it = 0 THEN r.heap ELSE [r.heap EXCEPT ![it].next = r.node] EXCEPT ![r.node].parent = node],
                           !.head = IF it = 0 THEN r.node ELSE p.head], node, r.node)

(* parse_node, lines 313-316, e what token_consume(TOKEN_NONE) gave *)
list_end(p, node, it, e) ==
  IF e.ok THEN [p EXCEPT !.unit = IF Dead(e.unit) THEN e.unit ELSE fatal_at(e.unit, "Expecting ending to node list.")]
  ELSE list_link(p, node, it, parse_node(p))

(* parse_node, lines 311-313, c what token_consume('}') gave *)
list_close(p, node, it, c) ==
  IF c.ok THEN [p EXCEPT !.unit = c.unit]
  ELSE list_end(p, node, it, token_consume(p.unit, TOKEN_NONE))

(* parse_node, lines 311-318: the children up to '}' *)
node_list(p, node, it) ==
  IF Dead(p.unit) THEN p
  ELSE list_close(p, node, it, token_consume(p.unit, CLOSE))

(* parse_node, line 332, n what parse_note gave *)
node_noted(p, id, n) == [p EXCEPT !.unit = n.unit, !.heap[id].note = n.note, !.node = id]

(* parse_node, lines 332-334 *)
node_note(p, id) ==
  IF Dead(p.unit) THEN [p EXCEPT !.node = id]
  ELSE node_noted(p, id, parse_note(p.unit))

(* parse_node, lines 327-330, str what token_consume(TOKEN_STRING) gave *)
node_string(p, id, str) ==
  IF str.ok /\ ~Dead(str.unit) THEN node_note([p EXCEPT !.unit = str.unit, !.heap[id].value = str.unit.previous.value], id)
  ELSE node_note([p EXCEPT !.unit = str.unit], id)

(* parse_node, lines 323-327, num what token_consume(TOKEN_NUMBER) gave *)
node_number(p, id, num) ==
  IF num.ok /\ ~Dead(num.unit) THEN node_note([p EXCEPT !.unit = num.unit, !.heap[id].value = num.unit.previous.value], id)
  ELSE IF num.ok THEN node_note([p EXCEPT !.unit = num.unit], id)
  ELSE node_string(p, id, token_consume(p.unit, TOKEN_STRING))

(* A faulty variant of node_closed: the node becomes a container only *)
(* when its list has a child.                                         *)
node_closed_nonempty(l, id) ==
  IF Dead(l.unit) \/ l.head = 0 THEN node_note([l EXCEPT !.node = id], id)
  ELSE node_note([l EXCEPT !.heap[id].value = [ZeroValue EXCEPT !.kind = Y_NODE, !.node = l.head]], id)

(* parse_node, lines 320-321, l what the node list gave *)
node_closed(l, id) ==
  IF Dead(l.unit) THEN [l EXCEPT !.node = id]
  ELSE node_note([l EXCEPT !.heap[id].value = [ZeroValue EXCEPT !.kind = Y_NODE, !.node = l.head]], id)

(* parse_node, lines 307-330, open what token_consume('{') gave *)
node_value(p, id, open) ==
  IF open.ok THEN node_closed(node_list([p EXCEPT !.unit = open.unit, !.head = 0], id, 0), id)
  ELSE node_number(p, id, token_consume(p.unit, TOKEN_NUMBER))

(* parse_node, lines 303-307, u what token_expect(TOKEN_TEXT) gave *)
node_name(p, id, u) ==
  IF Dead(u) THEN [p EXCEPT !.unit = u, !.node = id]
  ELSE node_value([p EXCEPT !.unit = u, !.heap[id].name = token_string_t(u.previous)], id, token_consume(u, OPEN))

(* parse_node, line 302: allocate *)
node_new(p) == [p EXCEPT !.heap = Append(@, [ZeroNode EXCEPT !.unit = p.uid])]

(* parse_node.  p is [unit, heap, uid, node, head]: the unit, the heap *)
(* of nodes, the unit's index, and the results.                        *)
parse_node(p) == node_name(node_new(p), Len(p.heap) + 1, token_expect(p.unit, TOKEN_TEXT))

(* parse_unit, line 340 *)
unit_end(r) == [r EXCEPT !.unit = token_expect(r.unit, TOKEN_NONE)]

(* parse_unit *)
parse_unit(p) == unit_end(parse_node(p))

(* ------------------------------------------------------------------ *)
(* Bounds and inputs.                                                  *)
(* ------------------------------------------------------------------ *)

(* The most units one context loads. *)
MaxLoads == 2

(* The most segments of a path given to y_find. *)
MaxSegs == 3

(* The most bytes of a generated source buffer after its first byte. *)
MaxTail == 4

(* The most bytes known of the memory that follows a buffer. *)
MaxBeyond == 1

(* All byte sequences of at most n bytes over a set of bytes. *)
Strings(bytes, n) == UNION {[1..k -> bytes] : k \in 0..n}

(* The files y_load finds: name -> content.                     *)
(*   one   a{b{ab}ab 1}     two   b{a "x"}                      *)
(*   dup   ab{a a{b}}       bad   a{b                           *)
Corpus ==
  [f \in {"one", "two", "dup", "bad"} |->
     CASE f = "one" -> Text(<<"a", "{", "b", "{", "a", "b", "}", "a", "b", " ", "1", "}">>)
       [] f = "two" -> Text(<<"b", "{", "a", " ", "q", "x", "q", "}">>)
       [] f = "dup" -> Text(<<"a", "b", "{", "a", " ", "a", "{", "b", "}", "}">>)
       [] f = "bad" -> Text(<<"a", "{", "b">>)]

(* The bytes generated buffers are made of. *)
Alphabet == {Code[c] : c \in {"a", "1", " ", "{", "}", "q", "/", ".", "_", "@", "n"}}

(* Generated buffers: a letter, then any bytes. *)
Buffers == {<<Code["a"]>> \o t : t \in Strings(Alphabet, MaxTail)}

(* What may follow a buffer in memory: a quote, a newline, some other *)
(* byte; past these the memory is not mapped.                         *)
Beyond == Strings({QUOTE, LF, Code["x"]}, MaxBeyond)

(* The names paths are made of: a, b, ab. *)
Names == {Text(<<"a">>), Text(<<"b">>), Text(<<"a", "b">>)}

RECURSIVE PathText(_)
(* The path string of a list of segments: the segments, a space between. *)
PathText(segs) ==
  IF Len(segs) = 0 THEN <<>>
  ELSE IF Len(segs) = 1 THEN segs[1]
  ELSE segs[1] \o <<SP>> \o PathText(Tail(segs))

(* The lists of 1..MaxSegs names. *)
SegLists == UNION {[1..k -> Names] : k \in 1..MaxSegs}

(* The paths given to y_find: every list of names, the empty path, and *)
(* a path with a comment.                                              *)
Paths == {PathText(l) : l \in SegLists} \cup {<<>>, Text(<<"a", "/", "/">>)}

(* ------------------------------------------------------------------ *)
(* The program's state.                                                *)
(* ------------------------------------------------------------------ *)
VARIABLES
  pc,       \* "live", "exited" (fatal_at ran exit(1)), "crashed", "deleted"
  fs,       \* the files: name -> bytes
  heap,     \* the nodes; heap[1] is ctx.root
  heads,    \* ctx.heads
  units,    \* ctx.units
  loaded,   \* the roots y_load has returned, in order (history)
  unit,     \* the local unit_t of the last y_load or y_find, as the call left it
  ret,      \* the last call and what it returned
  iter,     \* the caller's cursor given to y_iter (0: empty)
  begin,    \* the begin the cursor was started from
  yielded   \* what y_iter has returned since the cursor was last empty (history)

vars == <<pc, fs, heap, heads, units, loaded, unit, ret, iter, begin, yielded>>

NoRet == [op |-> "none", file |-> "", path |-> <<>>, node |-> 0, how |-> "", before |-> 0]

(* y_create: ctx.heads = &ctx.root points at the LOCAL ctx, which is    *)
(* returned by value.  Where the build constructs the result in place   *)
(* the pointer is the caller's &ctx.root (heap[1]); elsewhere it        *)
(* dangles.                                                             *)
y_create ==
  /\ heap = <<ZeroNode>>
  /\ heads \in {1, DANGLING}
  /\ units = <<>>

(* The caller's state beside the context. *)
Fresh ==
  /\ pc = "live"
  /\ loaded = <<>>
  /\ unit = new_unit(<<>>, <<>>, NULLCH)
  /\ ret = NoRet
  /\ iter = 0
  /\ begin = 0
  /\ yielded = <<>>

Init == fs = Corpus /\ y_create /\ Fresh

(* y_load, lines 373-377, p what parse_unit gave *)
load_link(file, p) ==
  /\ pc = "live"
  /\ unit' = Seen(p.unit)
  /\ UNCHANGED <<fs, iter, begin, yielded>>
  /\ IF Dead(p.unit)
     THEN /\ pc' = IF p.unit.fault THEN "crashed" ELSE "exited"
          /\ ret' = [NoRet EXCEPT !.op = "load", !.file = file, !.how = IF p.unit.fault THEN "crash" ELSE "exit"]
          /\ UNCHANGED <<heap, heads, units, loaded>>
     ELSE \/ /\ heads # DANGLING
             /\ heap' = [p.heap EXCEPT ![heads].next = p.node]
             /\ heads' = p.node
             /\ units' = Append(units, Seen(p.unit))
             /\ loaded' = Append(loaded, p.node)
             /\ ret' = [NoRet EXCEPT !.op = "load", !.file = file, !.node = p.node, !.how = "return"]
             /\ pc' = pc
          \/ /\ heads = DANGLING
             /\ heap' = p.heap
             /\ heads' = p.node
             /\ units' = Append(units, Seen(p.unit))
             /\ loaded' = Append(loaded, p.node)
             /\ ret' = [NoRet EXCEPT !.op = "load", !.file = file, !.node = p.node, !.how = "return"]
             /\ pc' = pc
          \/ /\ heads = DANGLING
             /\ pc' = "crashed"
             /\ ret' = [NoRet EXCEPT !.op = "load", !.file = file, !.how = "crash"]
             /\ UNCHANGED <<heap, heads, units, loaded>>

(* y_load.  The bytes `beyond` follow the buffer fs_read returns.  The *)
(* store y->heads->next = head through a dangling y->heads is          *)
(* undefined: it is lost, or the call crashes.                         *)
y_load(file, beyond) ==
  load_link(file, parse_unit([unit |-> lex_next(new_unit(fs[file], beyond, 0)), heap |-> heap, uid |-> Len(units) + 1, node |-> 0, head |-> 0]))

(* it->value.node: the union read through its node member. *)
value_node(v) ==
  IF v.kind = Y_NODE THEN v.node
  ELSE IF v.kind = Y_NONE THEN 0
  ELSE IF v.kind = Y_INTEGER /\ v.integer = 0 THEN 0
  ELSE WILD

(* y_find, line 394: length, then strncmp over the node's name. *)
name_equal(h, us, it, name) ==
  /\ Len(name) = h[it].name.length
  /\ name = Slice(us[h[it].unit], h[it].name.string, h[it].name.length)

RECURSIVE scan(_, _, _, _)
(* y_find, lines 391-403: the first node of the chain from `it` whose *)
(* name is `name`; 0 when the chain ends; a pointer that is no node   *)
(* when the loop comes to dereference one.                            *)
scan(h, us, it, name) ==
  IF it <= 0 THEN it
  ELSE IF name_equal(h, us, it, name) THEN it
  ELSE scan(h, us, h[it].next, name)

RECURSIVE find_loop(_, _, _, _)
RECURSIVE find_segment(_, _, _, _)
RECURSIVE find_match(_, _, _, _)
(* y_find, lines 394-409, `it` what the scan gave *)
find_match(h, us, u, it) ==
  IF it < 0 THEN [unit |-> u, node |-> it, how |-> "wild"]
  ELSE IF it = 0 THEN [unit |-> u, node |-> 0, how |-> "return"]
  ELSE IF u.current.kind = TOKEN_NONE THEN [unit |-> u, node |-> it, how |-> "return"]
  ELSE find_loop(h, us, u, value_node(h[it].value))

(* y_find, lines 388-391, c what token_consume(TOKEN_TEXT) gave *)
find_segment(h, us, current, c) ==
  IF Dead(c.unit) THEN [unit |-> c.unit, node |-> 0, how |-> "exit"]
  ELSE IF ~c.ok THEN [unit |-> c.unit, node |-> 0, how |-> "undefined"]
  ELSE find_match(h, us, c.unit, scan(h, us, current, Slice(c.unit, c.unit.previous.value.string, c.unit.previous.value.length)))

(* y_find, lines 388-412 *)
find_loop(h, us, u, current) == find_segment(h, us, current, token_consume(u, TOKEN_TEXT))

(* y_find, r what the loop gave.  how is "return" (node is the result, *)
(* 0 for NULL), "undefined" (control left the function without a       *)
(* return), "exit" (fatal_at) or "crash".  A walk over a pointer that  *)
(* is no node, and a write to the const path, are undefined: the call  *)
(* crashes, or goes on and returns NULL.                               *)
find_result(path, r) ==
  /\ pc = "live"
  /\ unit' = r.unit
  /\ UNCHANGED <<fs, heap, heads, units, loaded, iter, begin, yielded>>
  /\ \/ /\ r.how \in {"return", "undefined"}
        /\ ret' = [NoRet EXCEPT !.op = "find", !.path = path, !.node = r.node, !.how = r.how]
        /\ pc' = pc
     \/ /\ r.how = "exit"
        /\ ret' = [NoRet EXCEPT !.op = "find", !.path = path, !.how = IF r.unit.fault THEN "crash" ELSE "exit"]
        /\ pc' = IF r.unit.fault THEN "crashed" ELSE "exited"
     \/ /\ r.how = "wild"
        /\ ret' = [NoRet EXCEPT !.op = "find", !.path = path, !.how = "return"]
        /\ pc' = pc
     \/ /\ r.how = "wild" \/ r.unit.data # path \o <<NUL>>
        /\ ret' = [NoRet EXCEPT !.op = "find", !.path = path, !.how = "crash"]
        /\ pc' = "crashed"

(* y_find *)
y_find(path) == find_result(path, find_loop(heap, units, lex_next(new_unit(path, <<>>, NULLCH)), heads))

(* y_iter, lines 417-423, `it` the cursor after line 418 *)
iter_step(b, it) ==
  /\ pc = "live"
  /\ iter = 0 \/ b = begin
  /\ begin' = b
  /\ iter' = IF heap[it].next = 0 THEN it ELSE heap[it].next
  /\ yielded' = IF heap[it].next = 0 THEN yielded ELSE Append(yielded, heap[it].next)
  /\ ret' = [NoRet EXCEPT !.op = "iter", !.node = heap[it].next, !.how = "return", !.before = iter]
  /\ UNCHANGED <<pc, fs, heap, heads, units, loaded, unit>>

(* A faulty variant of y_iter: the cursor is not consulted. *)
y_iter_restarts(b) == iter_step(b, b)

(* y_iter(b, &iter) *)
y_iter(b) == iter_step(b, IF iter = 0 THEN b ELSE iter)

(* The caller empties its cursor: y_node_t *it = NULL. *)
reset ==
  /\ pc = "live"
  /\ iter # 0
  /\ iter' = 0
  /\ begin' = 0
  /\ yielded' = <<>>
  /\ ret' = NoRet
  /\ UNCHANGED <<pc, fs, heap, heads, units, loaded, unit>>

(* y_delete: buf_delete(y->units). *)
y_delete ==
  /\ pc = "live"
  /\ pc' = "deleted"
  /\ units' = <<>>
  /\ ret' = [NoRet EXCEPT !.op = "delete"]
  /\ UNCHANGED <<fs, heap, heads, loaded, unit, iter, begin, yielded>>

Load == \E f \in DOMAIN fs, b \in Beyond : Len(units) < MaxLoads /\ y_load(f, b)

Find == \E p \in Paths : y_find(p)

Iter == \E b \in 1..Len(heap) : y_iter(b)

(* A context: units are loaded, paths are looked up. *)
Next == Load \/ Find \/ y_delete

Spec == Init /\ [][Next]_vars

(* A context: units are loaded, sibling lists are iterated. *)
NextIter == Load \/ Iter \/ reset

SpecIter == Init /\ [][NextIter]_vars

(* The lexer and parser on generated buffers: one file, loaded once. *)
InitLex == fs \in {[f \in {"gen"} |-> b] : b \in Buffers} /\ y_create /\ Fresh

LoadOnce == \E f \in DOMAIN fs, b \in Beyond : units = <<>> /\ y_load(f, b)

NextLex == LoadOnce

SpecLex == InitLex /\ [][NextLex]_vars

(* ------------------------------------------------------------------ *)
(* What the claims speak of.                                           *)
(* ------------------------------------------------------------------ *)

RECURSIVE Chain(_, _)
(* The nodes met following next from node `it`, in order. *)
Chain(h, it) == IF it <= 0 THEN <<>> ELSE <<it>> \o Chain(h, h[it].next)

(* The elements of a sequence. *)
Range(q) == {q[i] : i \in 1..Len(q)}

(* A node's name, as y_find compares it. *)
NodeName(n) == Slice(units[heap[n].unit], heap[n].name.string, heap[n].name.length)

(* The children of a container node; a node of another kind has none. *)
Children(n) == IF heap[n].value.kind = Y_NODE THEN Range(Chain(heap, heap[n].value.node)) ELSE {}

(* The nodes among `nodes` that bear `name`. *)
Named(nodes, name) == {n \in nodes : NodeName(n) = name}

RECURSIVE Follow(_, _)
(* The nodes reached from `nodes` by following the names `segs`, each *)
(* among the children of a node reached by the one before.            *)
Follow(nodes, segs) ==
  IF Len(segs) = 0 THEN nodes
  ELSE Follow(Named(UNION {Children(n) : n \in nodes}, segs[1]), Tail(segs))

(* The nodes a path of names designates in the forest of loaded roots. *)
Reach(segs) == Follow(Named(Range(loaded), segs[1]), Tail(segs))

(* The paths made of names only, and the names of such a path. *)
NamePaths == {PathText(l) : l \in SegLists}

Segs(path) == CHOOSE l \in SegLists : PathText(l) = path

RECURSIVE ScalarOnWalk(_, _)
(* Whether y_find's walk from `current` over `segs` matches, at a   *)
(* segment that is not the last, a node that is no container.       *)
ScalarOnWalk(segs, current) ==
  /\ Len(segs) > 1
  /\ scan(heap, units, current, segs[1]) > 0
  /\ \/ heap[scan(heap, units, current, segs[1])].value.kind # Y_NODE
     \/ ScalarOnWalk(Tail(segs), heap[scan(heap, units, current, segs[1])].value.node)

(* The buffer the last y_load read, as the file holds it. *)
Original == fs[ret.file] \o <<NUL>>

OrigByte(i) == IF i >= 0 /\ i < Len(Original) THEN Original[i + 1] ELSE NUL

IsIdent(c) == isalpha(c) \/ isdigit(c) \/ c = USCORE

RECURSIVE IdentEnd(_)
(* Where the maximal run of letters, digits and '_' from offset i ends. *)
IdentEnd(i) == IF IsIdent(OrigByte(i)) THEN IdentEnd(i + 1) ELSE i

RECURSIVE LineEnd(_)
(* The newline or NUL that ends the line of offset i. *)
LineEnd(i) == IF OrigByte(i) = NUL \/ OrigByte(i) = LF THEN i ELSE LineEnd(i + 1)

RECURSIVE SkipBlank(_)
(* The first byte from offset i that is neither blank nor in a comment. *)
SkipBlank(i) ==
  IF OrigByte(i) = SP \/ OrigByte(i) = TAB \/ OrigByte(i) = LF THEN SkipBlank(i + 1)
  ELSE IF OrigByte(i) = SLASH /\ OrigByte(i + 1) = SLASH THEN SkipBlank(LineEnd(i))
  ELSE i

RECURSIVE DotInRun(_)
(* Whether the run of digits, '_' and '.' from offset i holds a '.'. *)
DotInRun(i) ==
  IF OrigByte(i) = DOT THEN TRUE
  ELSE IF isdigit(OrigByte(i)) \/ OrigByte(i) = USCORE THEN DotInRun(i + 1)
  ELSE FALSE

RECURSIVE RunValue(_, _)
(* The base-10 value of the digits of the run from offset i, '_' a *)
(* separator.                                                      *)
RunValue(i, acc) ==
  IF isdigit(OrigByte(i)) THEN RunValue(i + 1, acc * 10 + (OrigByte(i) - 48))
  ELSE IF OrigByte(i) = USCORE THEN RunValue(i + 1, acc)
  ELSE acc

(* Where what follows the name of node n begins in the file. *)
AfterName(n) == SkipBlank(IdentEnd(heap[n].name.string))

(* The kind the text after a name announces. *)
KindAt(i) ==
  IF OrigByte(i) = OPEN THEN Y_NODE
  ELSE IF OrigByte(i) = QUOTE THEN Y_STRING
  ELSE IF isdigit(OrigByte(i)) THEN (IF DotInRun(i) THEN Y_DECIMAL ELSE Y_INTEGER)
  ELSE Y_NONE

(* The nodes the load of one unit into a fresh context made. *)
Parsed == 2..Len(heap)

LoadReturned == ret.op = "load" /\ ret.how = "return"

(* ------------------------------------------------------------------ *)
(* The claims.                                                         *)
(* ------------------------------------------------------------------ *)

(* C1: for a path of names s1 ... sn, y_find returns a node iff a node  *)
(* named sn is reached by following s1, ..., sn by name from some root  *)
(* of the forest, the node returned being such a node; otherwise it     *)
(* returns NULL; it never ends in a fatal error.  Stated of contexts     *)
(* whose sentinel chains the loaded roots.                              *)
C1_FindIffReachable ==
  (ret.op = "find" /\ ret.path \in NamePaths /\ heads > 0 /\ Chain(heap, heap[1].next) = loaded) =>
     /\ ret.how = "return"
     /\ (ret.node # 0) <=> (Reach(Segs(ret.path)) # {})
     /\ ret.node # 0 => ret.node \in Reach(Segs(ret.path))

(* C2: with two units loaded, a path of names into the subtree of     *)
(* either root, the first as well as the second, resolves to the node *)
(* it designates.                                                     *)
C2_EveryRootSearched ==
  (ret.op = "find" /\ Len(loaded) = 2 /\ ret.path \in NamePaths /\ Len(Segs(ret.path)) = 1) =>
     \A i \in 1..2 : NodeName(loaded[i]) = ret.path => (ret.how = "return" /\ ret.node # 0 /\ NodeName(ret.node) = ret.path)

(* C3: after k loads the next links from the sentinel ctx.root visit  *)
(* exactly the k loaded roots, in load order, and ctx.units holds k   *)
(* units.                                                             *)
C3_RootsChained ==
  pc = "live" => (Chain(heap, heap[1].next) = loaded /\ Len(units) = Len(loaded))

(* C4: every node's name is the maximal run of letters, digits and '_' *)
(* that starts at the name's first byte in the file, whatever follows. *)
C4_NameIsIdentifier ==
  LoadReturned =>
     \A n \in Parsed : /\ heap[n].name.length = IdentEnd(heap[n].name.string) - heap[n].name.string
                       /\ NodeName(n) = [i \in 1..heap[n].name.length |-> OrigByte(heap[n].name.string + i - 1)]

C6_BufferUnchanged ==
  /\ ret.op = "load" => unit.data = Original
  /\ ret.op = "find" => unit.data = ret.path \o <<NUL>>

(* C7: lexing a file that holds a string literal never reads past the *)
(* buffer's terminating byte: the literal ends at its closing quote   *)
(* or in a fatal error.                                               *)
C7_StringWithinBuffer ==
  (ret.op = "load" /\ QUOTE \in Range(fs[ret.file])) =>
     (unit.oob <= unit.length /\ ~unit.fault /\ unit.cursor <= unit.length + 1)

(* C8: from an empty cursor y_iter returns the nodes after begin, in   *)
(* list order, each once and never begin itself; when it returns NULL  *)
(* all of them have been returned and the cursor stays where it was    *)
(* (at begin, when the cursor was empty and begin is the last node).   *)
C8_IterInOrder ==
  ret.op = "iter" =>
     /\ Len(yielded) <= Len(Chain(heap, heap[begin].next))
     /\ yielded = SubSeq(Chain(heap, heap[begin].next), 1, Len(yielded))
     /\ begin \notin Range(yielded)
     /\ ret.node # 0 => (yielded # <<>> /\ ret.node = yielded[Len(yielded)] /\ iter = ret.node)
     /\ ret.node = 0 => (yielded = Chain(heap, heap[begin].next) /\ iter = (IF ret.before = 0 THEN begin ELSE ret.before))

(* C8 witness: two nodes were returned, and then NULL. *)
C8_Witness == ret.op = "iter" /\ ret.node = 0 /\ Len(yielded) = 2 /\ ret.before # 0

(* C9: when a segment that is not the last matches a node that is no *)
(* container, y_find returns NULL.                                   *)
C9_ScalarDescentAbsent ==
  (ret.op = "find" /\ ret.path \in NamePaths /\ heads > 0 /\ ScalarOnWalk(Segs(ret.path), heads)) =>
     (ret.how = "return" /\ ret.node = 0)

(* C10: an Integer's value is the base-10 value of the digits of its *)
(* literal, '_' a separator, whatever follows the literal.           *)
C10_IntegerIsDigits ==
  LoadReturned =>
     \A n \in Parsed : heap[n].value.kind = Y_INTEGER => heap[n].value.integer = RunValue(AfterName(n), 0)
====
